---- MODULE Spec2Model ----
(***************************************************************************)
(* A model of the Grist upload client of msewell13/abs_scrape:             *)
(*   src/grist_client.py       GristClient and infer_columns_from_data     *)
(*   src/grist_integration.py  send_to_grist and the CLI driver main       *)
(*                                                                         *)
(* The program is sequential, so every client operation is one action     *)
(* that runs the whole method: the requests it issues are threaded         *)
(* through a context (remote state, request log, pending exception) and   *)
(* any one request of a call may be answered with an HTTP error status.   *)
(*                                                                         *)
(* Three specifications share the variables:                               *)
(*   SpecInfer  infer_columns_from_data applied to bounded inputs          *)
(*   Spec       the GristClient methods called on a session document       *)
(*   SpecRun    send_to_grist and main                                     *)
(***************************************************************************)
EXTENDS Integers, Sequences, FiniteSets, TLC

VARIABLES
    docs,      \* remote: workspace id -> list of documents [id, name]
    tables,    \* remote: document id -> (table id -> [columns, rows])
    nextId,    \* remote: id the server gives the next created document
    cur,       \* client: the document dict held by the caller (NoDoc if none)
    op,        \* the client operation that has just run ("idle": none)
    args,      \* arguments of the last client operation
    log,       \* HTTP requests the last operation issued, in order
    raised,    \* exception the last operation ended with ("none" if it returned)
    ret,       \* what the last operation returned
    pre,       \* remote state when the last operation started
    exit,      \* process exit status of the CLI driver (NoExit when not exited)
    success    \* whether the last operation printed the success message

vars == <<docs, tables, nextId, cur, op, args, log, raised, ret, pre, exit, success>>

(***************************************************************************)
(* Bounds of the model.                                                    *)
(***************************************************************************)
MaxStrLen == 4      \* longest string value, in lexical pieces (SpecInfer)
MaxRecs == 2        \* longest record list given to infer_columns_from_data
MaxRows == 2        \* most rows a remote table holds
MaxDocs == 4        \* most documents the remote holds

(***************************************************************************)
(* Python values.  A value is [k, s, n]: its class k, for a string its     *)
(* text s as a sequence of lexical pieces, and a payload n that tells      *)
(* values of one shape apart.  The pieces of a string are                  *)
(*   "D" a date YYYY-MM-DD      "H" a clock time HH:MM                     *)
(*   "T" "Z" "+" "x"            those single characters                    *)
(* so "2024-01-01T00:00Z" is <<"D","T","H","Z">> and "+00:00" is           *)
(* <<"+","H">>.                                                            *)
(***************************************************************************)
Pieces == {"D", "H", "T", "Z", "+", "x"}
SingleChars == {"T", "Z", "+", "x"}

Val(k, s, n) == [k |-> k, s |-> s, n |-> n]
NoneVal == Val("none", <<>>, 0)
IntVal(n) == Val("int", <<>>, n)
BoolVal == Val("bool", <<>>, 1)
StrVal(s) == Val("str", s, 0)

Strings(len) == UNION {[1..n -> Pieces] : n \in 0..len}

\* The classes a value is an instance of: bool is a subclass of int.
ClassesOf(v) ==
    IF v.k = "bool" THEN {"bool", "int"} ELSE {v.k}

IsInstance(v, cls) == cls \in ClassesOf(v)

\* str.replace(old, new) for a one-piece old: every occurrence is replaced.
RECURSIVE StrReplace(_, _, _)
StrReplace(s, old, new) ==
    IF s = <<>> THEN <<>>
    ELSE (IF Head(s) = old THEN new ELSE <<Head(s)>>) \o StrReplace(Tail(s), old, new)

\* datetime.fromisoformat accepts a date, optionally followed by any single
\* separator character and a time, optionally followed by a UTC offset.
\* TRUE when it returns, FALSE when it raises ValueError.
FromIsoFormatOk(s) ==
    \/ s = <<"D">>
    \/ /\ Len(s) \in {3, 5}
       /\ s[1] = "D"
       /\ s[2] \in SingleChars
       /\ s[3] = "H"
       /\ Len(s) = 5 => (s[4] = "+" /\ s[5] = "H")

\* The type chain of infer_columns_from_data for one value.
InferTypeBoolAsInt(value) ==
    IF IsInstance(value, "int") THEN "Int"
    ELSE IF IsInstance(value, "bool") THEN "Bool"
    ELSE IF IsInstance(value, "float") THEN "Numeric"
    ELSE IF IsInstance(value, "datetime") THEN "DateTime"
    ELSE IF IsInstance(value, "str")
         THEN IF FromIsoFormatOk(StrReplace(value.s, "Z", <<"+", "H">>))
              THEN "DateTime" ELSE "Text"
    ELSE "Text"

InferType(value) ==
    IF IsInstance(value, "bool") THEN "Bool"
    ELSE IF IsInstance(value, "int") THEN "Int"
    ELSE IF IsInstance(value, "float") THEN "Numeric"
    ELSE IF IsInstance(value, "datetime") THEN "DateTime"
    ELSE IF IsInstance(value, "str")
         THEN IF FromIsoFormatOk(StrReplace(value.s, "Z", <<"+", "H">>))
              THEN "DateTime" ELSE "Text"
    ELSE "Text"

(***************************************************************************)
(* Records are dicts that keep insertion order: sequences of [key, val]    *)
(* with distinct keys.  Column definitions are [id, type]; NoType stands   *)
(* for a definition without a "type" key.                                  *)
(***************************************************************************)
Item(k, v) == [key |-> k, val |-> v]
Col(i, t) == [id |-> i, type |-> t]
NoType == "-"

HasKey(record, k) == \E i \in 1..Len(record) : record[i].key = k
KeysOf(record) == {record[i].key : i \in 1..Len(record)}
ColIds(columns) == {columns[i].id : i \in 1..Len(columns)}

InferColumnsLastRecord(data) ==
    IF data = <<>> THEN <<>>
    ELSE LET sample == data[Len(data)]
         IN [i \in 1..Len(sample) |-> Col(sample[i].key, InferType(sample[i].val))]

InferColumns(data) ==
    IF data = <<>> THEN <<>>
    ELSE LET sample == data[1]
         IN [i \in 1..Len(sample) |-> Col(sample[i].key, InferType(sample[i].val))]

(***************************************************************************)
(* The remote service.  The client reaches it only through _request; the   *)
(* model answers each request the way the client's methods expect: the     *)
(* listing endpoints return what is stored, POST and PATCH store what the  *)
(* body carries, and a request for a workspace, document or table that is  *)
(* not there is answered with an error status.                             *)
(***************************************************************************)
Workspaces == << [id |-> "w1", name |-> "brightstar"], [id |-> "w2", name |-> "other"] >>

NoDoc == [id |-> 0, name |-> ""]
NoTables == [t \in {} |-> [columns |-> <<>>, rows |-> <<>>]]

Req(method, kind, ws, doc, table, name, cols, recs) ==
    [method |-> method, kind |-> kind, ws |-> ws, doc |-> doc, table |-> table,
     name |-> name, cols |-> cols, recs |-> recs, ok |-> TRUE]

ServerAccepts(c, req) ==
    CASE req.kind = "workspaces" -> TRUE
      [] req.kind = "ws_docs" -> req.ws \in DOMAIN c.docs
      [] req.kind = "tables" -> req.doc \in DOMAIN c.tables
      [] req.kind \in {"columns", "records"} ->
            /\ req.doc \in DOMAIN c.tables
            /\ req.table \in DOMAIN c.tables[req.doc]

\* A column dict written into a table's schema: a new id is appended, a
\* present id has its type set.
SchemaPut(columns, col) ==
    IF col.id \in ColIds(columns)
    THEN [i \in 1..Len(columns) |-> IF columns[i].id = col.id THEN col ELSE columns[i]]
    ELSE Append(columns, col)

RECURSIVE SchemaPutAll(_, _)
SchemaPutAll(columns, cols) ==
    IF cols = <<>> THEN columns
    ELSE SchemaPutAll(SchemaPut(columns, Head(cols)), Tail(cols))

ServerApply(c, req) ==
    CASE req.kind = "workspaces" ->
            [c EXCEPT !.ret = Workspaces]
      [] req.kind = "ws_docs" /\ req.method = "GET" ->
            [c EXCEPT !.ret = c.docs[req.ws]]
      [] req.kind = "ws_docs" /\ req.method = "POST" ->
            LET doc == [id |-> c.nextId, name |-> req.name]
            IN [c EXCEPT !.docs[req.ws] = Append(@, doc),
                         !.tables = (doc.id :> NoTables) @@ @,
                         !.nextId = @ + 1,
                         !.ret = doc]
      [] req.kind = "tables" /\ req.method = "GET" ->
            [c EXCEPT !.ret = DOMAIN c.tables[req.doc]]
      [] req.kind = "tables" /\ req.method = "POST" ->
            [c EXCEPT !.tables[req.doc] =
                          (req.table :> [columns |-> req.cols, rows |-> <<>>]) @@ @,
                      !.ret = {req.table}]
      [] req.kind = "columns" /\ req.method = "GET" ->
            [c EXCEPT !.ret = c.tables[req.doc][req.table].columns]
      [] req.kind = "columns" /\ req.method = "PATCH" ->
            [c EXCEPT !.tables[req.doc][req.table].columns = SchemaPutAll(@, req.cols),
                      !.ret = {}]
      [] req.kind = "records" /\ req.method = "POST" ->
            [c EXCEPT !.tables[req.doc][req.table].rows = @ \o req.recs,
                      !.ret = Len(req.recs)]

(***************************************************************************)
(* GristClient.  A context c carries the remote state, the requests issued *)
(* so far, the pending exception and the value just returned; c.fail is    *)
(* the position of the request the service answers with an error status   *)
(* (0: none).  Every method passes a pending exception on unchanged.       *)
(***************************************************************************)
\* The one element of a singleton set: The({e(x) : x \in {v}}) is e(v) with
\* v computed once.
The(S) == CHOOSE x \in S : TRUE

Raise(c, e) == [c EXCEPT !.exc = e]
Return(c, v) == [c EXCEPT !.ret = v]
Ok(c) == c.exc = "none"

\* Whether the service answers the next request of c with a success status.
Answers(c, req) == Len(c.log) + 1 # c.fail /\ ServerAccepts(c, req)

Logged(c, req, ok) == [c EXCEPT !.log = Append(@, [req EXCEPT !.ok = ok])]

RequestTwice(c, req) ==
    IF Answers(c, req) THEN ServerApply(Logged(c, req, TRUE), req)
    ELSE IF ServerAccepts(c, req)
         THEN ServerApply(Logged(Logged(c, req, FALSE), req, TRUE), req)
         ELSE Raise(Logged(c, req, FALSE), "HTTPError")

\* _request: one HTTP request; raise_for_status raises on an error status.
Request(c, req) ==
    IF Answers(c, req) THEN ServerApply(Logged(c, req, TRUE), req)
    ELSE Raise(Logged(c, req, FALSE), "HTTPError")

list_workspaces(c) ==
    Request(c, Req("GET", "workspaces", "", 0, "", "", <<>>, <<>>))

\* The first position in a non-empty set of list positions.
First(hits) == CHOOSE i \in hits : \A j \in hits : i <= j

\* get_workspace with workspace_id None: the first workspace whose id or
\* name is the client's org.
get_workspace(c, org) ==
    The({ IF ~Ok(c1) THEN c1
          ELSE The({ IF hits = {} THEN Raise(c1, "ValueError")
                     ELSE Return(c1, c1.ret[First(hits)]) :
                     hits \in { {i \in 1..Len(c1.ret) :
                                    c1.ret[i].id = org \/ c1.ret[i].name = org} } }) :
          c1 \in { list_workspaces(c) } })

\* list_documents with a workspace id given.
list_documents(c, workspace_id) ==
    Request(c, Req("GET", "ws_docs", workspace_id, 0, "", "", <<>>, <<>>))

CreateDocument(c, workspace_id, doc_name) ==
    Request(c, Req("POST", "ws_docs", workspace_id, 0, "", doc_name, <<>>, <<>>))

FindDocumentNever(c, doc_name) == {}

\* The positions of the listed documents named doc_name.
FindDocument(c, doc_name) ==
    {i \in 1..Len(c.ret) : c.ret[i].name = doc_name}

\* The part of get_or_create_document after the workspace is known.
GetOrCreateIn(c, workspace_id, doc_name) ==
    The({ IF ~Ok(c2) THEN c2
          ELSE The({ IF hits # {} THEN Return(c2, c2.ret[First(hits)])
                     ELSE CreateDocument(c2, workspace_id, doc_name) :
                     hits \in { FindDocument(c2, doc_name) } }) :
          c2 \in { list_documents(c, workspace_id) } })

\* get_or_create_document with workspace_id None.
get_or_create_document(c, doc_name, org) ==
    The({ IF ~Ok(c1) THEN c1 ELSE GetOrCreateIn(c1, c1.ret.id, doc_name) :
          c1 \in { get_workspace(c, org) } })

list_tables_wrapper_keys(c, doc_id) ==
    The({ IF Ok(c1) THEN Return(c1, {"tables"}) ELSE c1 :
          c1 \in { Request(c, Req("GET", "tables", "", doc_id, "", "", <<>>, <<>>)) } })

list_tables(c, doc_id) ==
    Request(c, Req("GET", "tables", "", doc_id, "", "", <<>>, <<>>))

get_table_schema(c, doc_id, table_id) ==
    Request(c, Req("GET", "columns", "", doc_id, table_id, "", <<>>, <<>>))

\* col.get("type", "Text")
ColType(col) == IF col.type = NoType THEN "Text" ELSE col.type

\* d[id] = {"type": t} on a dict d kept as a sequence in insertion order.
DictSet(d, id, t) ==
    IF id \in ColIds(d)
    THEN [i \in 1..Len(d) |-> IF d[i].id = id THEN Col(id, t) ELSE d[i]]
    ELSE Append(d, Col(id, t))

\* The loop of create_table: columns_data, starting from acc.
RECURSIVE ColumnsData(_, _)
ColumnsData(columns, acc) ==
    IF columns = <<>> THEN acc
    ELSE ColumnsData(Tail(columns), DictSet(acc, Head(columns).id, ColType(Head(columns))))

create_table(c, doc_id, table_id, columns) ==
    Request(c, Req("POST", "tables", "", doc_id, table_id, "",
                   ColumnsData(columns, <<>>), <<>>))

RECURSIVE NewColsFirstOnly(_, _, _)
NewColsFirstOnly(columns, existing_cols, acc) ==
    IF columns = <<>> \/ acc # <<>> THEN acc
    ELSE NewColsFirstOnly(Tail(columns), existing_cols,
                 IF Head(columns).id \notin existing_cols
                 THEN DictSet(acc, Head(columns).id, ColType(Head(columns)))
                 ELSE acc)

RECURSIVE NewColsAll(_, _, _)
NewColsAll(columns, existing_cols, acc) ==
    IF columns = <<>> THEN acc
    ELSE NewColsAll(Tail(columns), existing_cols,
                 DictSet(acc, Head(columns).id, ColType(Head(columns))))

\* The loop of ensure_table: new_cols, the required columns whose id is not
\* in existing_cols.
RECURSIVE NewCols(_, _, _)
NewCols(columns, existing_cols, acc) ==
    IF columns = <<>> THEN acc
    ELSE NewCols(Tail(columns), existing_cols,
                 IF Head(columns).id \notin existing_cols
                 THEN DictSet(acc, Head(columns).id, ColType(Head(columns)))
                 ELSE acc)

\* A call whose result ensure_table drops: it returns None or raises.
Dropped(c) == IF Ok(c) THEN Return(c, {}) ELSE c

\* The else branch of ensure_table: the table exists.
AddMissingColumns(c, doc_id, table_id, columns) ==
    The({ IF ~Ok(c2) THEN c2
          ELSE The({ IF new_cols # <<>>
                     THEN Dropped(Request(c2, Req("PATCH", "columns", "", doc_id,
                                                  table_id, "", new_cols, <<>>)))
                     ELSE Return(c2, {}) :
                     new_cols \in { NewCols(columns, ColIds(c2.ret), <<>>) } }) :
          c2 \in { get_table_schema(c, doc_id, table_id) } })

ensure_table_always_create(c, doc_id, table_id, columns) ==
    The({ IF ~Ok(c1) THEN c1
          ELSE Dropped(create_table(c1, doc_id, table_id, columns)) :
          c1 \in { list_tables(c, doc_id) } })

ensure_table(c, doc_id, table_id, columns) ==
    The({ IF ~Ok(c1) THEN c1
          ELSE IF table_id \notin c1.ret
               THEN Dropped(create_table(c1, doc_id, table_id, columns))
               ELSE AddMissingColumns(c1, doc_id, table_id, columns) :
          c1 \in { list_tables(c, doc_id) } })

add_records_in_two(c, doc_id, table_id, records) ==
    IF Len(records) < 2
    THEN Request(c, Req("POST", "records", "", doc_id, table_id, "", <<>>, records))
    ELSE The({ IF ~Ok(c1) THEN c1
               ELSE Request(c1, Req("POST", "records", "", doc_id, table_id, "",
                                    <<>>, Tail(records))) :
               c1 \in { Request(c, Req("POST", "records", "", doc_id, table_id, "",
                                       <<>>, <<Head(records)>>)) } })

add_records(c, doc_id, table_id, records) ==
    Request(c, Req("POST", "records", "", doc_id, table_id, "", <<>>, records))

\* upsert_records: both branches add the records (the matching on
\* key_columns is a TODO in the source).
upsert_records(c, doc_id, table_id, records, key_columns) ==
    IF ~key_columns.some
    THEN add_records(c, doc_id, table_id, records)
    ELSE add_records(c, doc_id, table_id, records)

(***************************************************************************)
(* Running one client operation as an action.                              *)
(***************************************************************************)
NoKeys == [some |-> FALSE, v |-> <<>>]
SomeKeys(v) == [some |-> TRUE, v |-> v]
NoExit == -1

NoArgs ==
    [org |-> "", doc_name |-> "", doc_id |-> 0, table_id |-> "", columns |-> <<>>,
     records |-> <<>>, upsert |-> FALSE, key_columns |-> NoKeys,
     exists |-> FALSE, suffix |-> "", loads |-> FALSE, now |-> 0]

NoRet == [doc |-> NoDoc, cols |-> <<>>]

\* The context a call starts in: the remote as it is, nothing requested yet.
Ctx(fail) ==
    [docs |-> docs, tables |-> tables, nextId |-> nextId, log |-> <<>>,
     fail |-> fail, exc |-> "none", ret |-> {}, printed |-> FALSE]

\* The model's caps, and the failing position lying within the requests issued.
Bounded(c) ==
    /\ c.nextId <= MaxDocs + 1
    /\ \A d \in DOMAIN c.tables : \A t \in DOMAIN c.tables[d] :
           Len(c.tables[d][t].rows) <= MaxRows
    /\ c.fail <= Len(c.log)

Finish(name, a, c, r, newcur, ex, succ) ==
    /\ op = "idle"
    /\ Bounded(c)
    /\ docs' = c.docs
    /\ tables' = c.tables
    /\ nextId' = c.nextId
    /\ cur' = newcur
    /\ op' = name
    /\ args' = a
    /\ log' = c.log
    /\ raised' = c.exc
    /\ ret' = r
    /\ pre' = [docs |-> docs, tables |-> tables]
    /\ exit' = ex
    /\ success' = succ

\* The remote before any call: a workspace holding another document with a
\* table of its own, and either no document of the names used or two of one
\* name; the other workspace holds a document of a name used.
LegacyTable == [columns |-> <<Col("id", "Int")>>, rows |-> <<>>]

InitRemotes ==
    { [docs |-> ("w1" :> <<[id |-> 1, name |-> "Legacy"]>>)
                @@ ("w2" :> <<[id |-> 2, name |-> "ABS"]>>),
       tables |-> (1 :> ("Legacy" :> LegacyTable)) @@ (2 :> NoTables),
       nextId |-> 3],
      [docs |-> ("w1" :> <<[id |-> 1, name |-> "Legacy"], [id |-> 2, name |-> "ABS"],
                           [id |-> 3, name |-> "ABS"]>>)
                @@ ("w2" :> <<>>),
       tables |-> (1 :> ("Legacy" :> LegacyTable)) @@ (2 :> NoTables) @@ (3 :> NoTables),
       nextId |-> 4] }

InitWith(r, a) ==
    /\ docs = r.docs
    /\ tables = r.tables
    /\ nextId = r.nextId
    /\ cur = NoDoc
    /\ op = "idle"
    /\ args = a
    /\ log = <<>>
    /\ raised = "none"
    /\ ret = NoRet
    /\ pre = [docs |-> r.docs, tables |-> r.tables]
    /\ exit = NoExit
    /\ success = FALSE

\* The caller goes on: the record of the call that has just run is dropped,
\* the remote state and the document the caller holds stay.
NextCall ==
    /\ op # "idle"
    /\ op' = "idle"
    /\ args' = NoArgs
    /\ log' = <<>>
    /\ raised' = "none"
    /\ ret' = NoRet
    /\ pre' = [docs |-> docs, tables |-> tables]
    /\ exit' = NoExit
    /\ success' = FALSE
    /\ UNCHANGED <<docs, tables, nextId, cur>>

(***************************************************************************)
(* SpecInfer: infer_columns_from_data on bounded inputs.                   *)
(***************************************************************************)
OtherKinds == {"bool", "int", "float", "datetime", "none", "list"}
AllValues ==
    {Val(k, <<>>, 0) : k \in OtherKinds} \cup {StrVal(s) : s \in Strings(MaxStrLen)}

SampleValues == {IntVal(1), StrVal(<<"D">>)}
SampleRecords ==
    {<<>>}
    \cup {<<Item("a", v)>> : v \in SampleValues}
    \cup {<<Item(k[1], v), Item(k[2], w)>> :
              k \in {<<"a", "b">>, <<"b", "a">>}, v \in SampleValues, w \in SampleValues}

InferData ==
    {<< <<Item("a", v)>> >> : v \in AllValues}
    \cup UNION {[1..n -> SampleRecords] : n \in 0..MaxRecs}

InferInit ==
    \E data \in InferData :
        InitWith(CHOOSE r \in InitRemotes : r.nextId = 3, [NoArgs EXCEPT !.records = data])

InferStep ==
    /\ op = "idle"
    /\ op' = "infer_columns_from_data"
    /\ ret' = [NoRet EXCEPT !.cols = InferColumns(args.records)]
    /\ UNCHANGED <<docs, tables, nextId, cur, args, log, raised, pre, exit, success>>

InferNext == InferStep

SpecInfer == InferInit /\ [][InferNext]_vars

(***************************************************************************)
(* Spec: the GristClient methods, called by a caller that holds the        *)
(* document it got from get_or_create_document.                            *)
(***************************************************************************)
DocNames == {"ABS"}
Orgs == {"brightstar", "nosuch"}
TableIds == {"T1", "T2"}
ColumnLists ==
    { <<>>,
      <<Col("a", "Int")>>,
      <<Col("a", "Text"), Col("b", NoType)>>,
      <<Col("b", "Numeric"), Col("b", "Bool")>> }
RecordLists ==
    { <<>>,
      << <<Item("a", IntVal(1))>> >>,
      << <<Item("a", IntVal(1))>>, <<Item("a", IntVal(2)), Item("b", StrVal(<<"x">>))>> >> }
KeyColumns == {NoKeys, SomeKeys(<<"a">>)}
FailPoints == 0..3

Init == \E r \in InitRemotes : InitWith(r, NoArgs)

GetOrCreateDocument ==
    /\ op = "idle"
    /\ \E doc_name \in DocNames, org \in Orgs, fail \in FailPoints :
        LET c == get_or_create_document(Ctx(fail), doc_name, org)
        IN Finish("get_or_create_document",
                  [NoArgs EXCEPT !.doc_name = doc_name, !.org = org],
                  c, IF Ok(c) THEN [NoRet EXCEPT !.doc = c.ret] ELSE NoRet,
                  IF Ok(c) THEN c.ret ELSE cur, NoExit, FALSE)

EnsureTable ==
    /\ cur # NoDoc
    /\ \E table_id \in TableIds, columns \in ColumnLists, fail \in FailPoints :
        LET c == ensure_table(Ctx(fail), cur.id, table_id, columns)
        IN Finish("ensure_table",
                  [NoArgs EXCEPT !.doc_id = cur.id, !.table_id = table_id,
                                 !.columns = columns],
                  c, NoRet, cur, NoExit, FALSE)

AddRecords ==
    /\ cur # NoDoc
    /\ \E table_id \in TableIds, records \in RecordLists, fail \in FailPoints :
        LET c == add_records(Ctx(fail), cur.id, table_id, records)
        IN Finish("add_records",
                  [NoArgs EXCEPT !.doc_id = cur.id, !.table_id = table_id,
                                 !.records = records],
                  c, NoRet, cur, NoExit, FALSE)

UpsertRecords ==
    /\ cur # NoDoc
    /\ \E table_id \in TableIds, records \in RecordLists,
          key_columns \in KeyColumns, fail \in FailPoints :
        LET c == upsert_records(Ctx(fail), cur.id, table_id, records, key_columns)
        IN Finish("upsert_records",
                  [NoArgs EXCEPT !.doc_id = cur.id, !.table_id = table_id,
                                 !.records = records, !.key_columns = key_columns],
                  c, NoRet, cur, NoExit, FALSE)

Next ==
    \/ GetOrCreateDocument
    \/ EnsureTable
    \/ AddRecords
    \/ UpsertRecords
    \/ NextCall

Spec == Init /\ [][Next]_vars

(***************************************************************************)
(* send_to_grist and main (src/grist_integration.py).                      *)
(***************************************************************************)
\* datetime.now().isoformat(): a date-time string; now tells readings apart.
Timestamp(now) == Val("str", <<"D", "T", "H">>, now)

\* The loop that adds the timestamp to the records lacking "scraped_at".
StampRecordsAll(data, timestamp) ==
    [i \in 1..Len(data) |->
        IF HasKey(data[i], "scraped_at")
        THEN [j \in 1..Len(data[i]) |->
                 IF data[i][j].key = "scraped_at"
                 THEN Item("scraped_at", timestamp) ELSE data[i][j]]
        ELSE Append(data[i], Item("scraped_at", timestamp))]

StampRecords(data, timestamp) ==
    [i \in 1..Len(data) |->
        IF HasKey(data[i], "scraped_at") THEN data[i]
        ELSE Append(data[i], Item("scraped_at", timestamp))]

\* The upload at the end of send_to_grist, and the success message after it.
SendRecords(c, doc_id, table_name, stamped, upsert, key_columns) ==
    The({ IF Ok(c4) THEN [c4 EXCEPT !.printed = TRUE] ELSE c4 :
          c4 \in { IF upsert
                   THEN upsert_records(c, doc_id, table_name, stamped, key_columns)
                   ELSE add_records(c, doc_id, table_name, stamped) } })

\* The second ensure_table of send_to_grist: the timestamp column.
EnsureTimestampColumn(c, doc_id, table_name, columns) ==
    IF "scraped_at" \notin ColIds(columns)
    THEN ensure_table(c, doc_id, table_name, <<Col("scraped_at", "DateTime")>>)
    ELSE c

SendDataUploadEarly(c, data, doc_name, table_name, org, upsert, key_columns, now) ==
    The({ IF ~Ok(c1) THEN c1
          ELSE The({ IF ~Ok(c2) THEN c2
                     ELSE The({ IF ~Ok(c3) THEN c3
                                ELSE EnsureTimestampColumn(c3, c1.ret.id, table_name,
                                                           InferColumns(data)) :
                                c3 \in { SendRecords(c2, c1.ret.id, table_name,
                                                     StampRecords(data, Timestamp(now)),
                                                     upsert, key_columns) } }) :
                     c2 \in { ensure_table(c1, c1.ret.id, table_name,
                                           InferColumns(data)) } }) :
          c1 \in { get_or_create_document(c, doc_name, org) } })

\* The part of send_to_grist after the empty-data check.
SendData(c, data, doc_name, table_name, org, upsert, key_columns, now) ==
    The({ IF ~Ok(c1) THEN c1
          ELSE The({ IF ~Ok(c2) THEN c2
                     ELSE The({ IF ~Ok(c3) THEN c3
                                ELSE SendRecords(c3, c1.ret.id, table_name,
                                                 StampRecords(data, Timestamp(now)),
                                                 upsert, key_columns) :
                                c3 \in { EnsureTimestampColumn(c2, c1.ret.id, table_name,
                                                               InferColumns(data)) } }) :
                     c2 \in { ensure_table(c1, c1.ret.id, table_name,
                                           InferColumns(data)) } }) :
          c1 \in { get_or_create_document(c, doc_name, org) } })

send_to_grist_no_check(c, data, doc_name, table_name, org, upsert, key_columns, now) ==
    SendData(c, data, doc_name, table_name, org, upsert, key_columns, now)

send_to_grist(c, data, doc_name, table_name, org, upsert, key_columns, now) ==
    IF data = <<>> THEN Return(c, {})
    ELSE SendData(c, data, doc_name, table_name, org, upsert, key_columns, now)

\* str.lower() on a file suffix, a sequence of characters.
LowerChar(ch) ==
    CASE ch = "J" -> "j" [] ch = "S" -> "s" [] ch = "O" -> "o" [] ch = "N" -> "n"
      [] ch = "C" -> "c" [] ch = "V" -> "v" [] ch = "T" -> "t" [] ch = "X" -> "x"
      [] OTHER -> ch

Lower(str) == [i \in 1..Len(str) |-> LowerChar(str[i])]

DotJson == <<".", "j", "s", "o", "n">>
DotCsv == <<".", "c", "s", "v">>

\* Which loader main picks for a suffix ("none": unsupported format).
LoaderCaseSensitive(suffix) ==
    IF suffix = DotJson THEN "json"
    ELSE IF suffix = DotCsv THEN "csv"
    ELSE "none"

Loader(suffix) ==
    IF Lower(suffix) = DotJson THEN "json"
    ELSE IF Lower(suffix) = DotCsv THEN "csv"
    ELSE "none"

\* The status main ends with once send_to_grist has run in its try block.
ExitAfterSendAlwaysZero(c) == 0

ExitAfterSend(c) == IF Ok(c) THEN 0 ELSE 1

\* main: file.exists tells whether the input path exists, file.loads whether
\* the loader returns (data) or raises; an uncaught exception ends the
\* process with status 1, as sys.exit(1) does.
main(c, file, data, doc_name, table_name, org, upsert, key_columns, now) ==
    IF ~file.exists THEN [c EXCEPT !.exc = "SystemExit", !.ret = 1]
    ELSE IF Loader(file.suffix) = "none" THEN [c EXCEPT !.exc = "SystemExit", !.ret = 1]
    ELSE IF ~file.loads THEN [c EXCEPT !.exc = "LoadError", !.ret = 1]
    ELSE The({ Return(c1, ExitAfterSend(c1)) :
               c1 \in { send_to_grist(c, data, doc_name, table_name, org, upsert,
                                      key_columns, now) } })

(***************************************************************************)
(* SpecRun: runs of send_to_grist and of main.                             *)
(***************************************************************************)
RunData ==
    { <<>>,
      << <<Item("a", IntVal(1))>> >>,
      << <<Item("a", StrVal(<<"x">>)), Item("scraped_at", StrVal(<<"D">>))>>,
         <<Item("a", StrVal(<<"D", "T", "H", "Z">>)), Item("b", NoneVal)>> >>,
      << <<Item("a", BoolVal)>>, <<Item("a", IntVal(2))>> >> }

\* What load_csv_data can return: every value a string or None.
IsCsvData(data) ==
    \A i \in 1..Len(data) : \A j \in 1..Len(data[i]) :
        data[i][j].val.k \in {"str", "none"}

UpsertModes ==
    { [upsert |-> FALSE, key_columns |-> NoKeys],
      [upsert |-> TRUE, key_columns |-> NoKeys],
      [upsert |-> TRUE, key_columns |-> SomeKeys(<<"a">>)] }
Times == {1}
RunTables == {"T1"}
RunFailPoints == 0..10

Suffixes ==
    { DotJson, DotCsv, <<".", "J", "S", "O", "N">>, <<".", "C", "s", "v">>,
      <<".", "t", "x", "t">>, <<>> }
Files == [exists : BOOLEAN, suffix : Suffixes, loads : BOOLEAN]

\* The command lines main is run with: what the file loads to (nothing when
\* it is not loaded), --org, --upsert and --key-columns.
MainModes ==
    { [upsert |-> FALSE, key_columns |-> NoKeys],
      [upsert |-> TRUE, key_columns |-> SomeKeys(<<"a">>)] }
MainRuns(file) ==
    IF file.exists /\ Loader(file.suffix) # "none" /\ file.loads
    THEN [data : {d \in RunData : Loader(file.suffix) = "csv" => IsCsvData(d)},
          org : Orgs, m : MainModes]
    ELSE [data : {<<>>}, org : {"brightstar"},
          m : {[upsert |-> FALSE, key_columns |-> NoKeys]}]

SendToGrist ==
    /\ op = "idle"
    /\ \E data \in RunData, doc_name \in DocNames, table_name \in RunTables, org \in Orgs,
          m \in UpsertModes, now \in Times, fail \in RunFailPoints :
        LET c == send_to_grist(Ctx(fail), data, doc_name, table_name, org,
                               m.upsert, m.key_columns, now)
        IN Finish("send_to_grist",
                  [NoArgs EXCEPT !.records = data, !.doc_name = doc_name,
                                 !.table_id = table_name, !.org = org,
                                 !.upsert = m.upsert, !.key_columns = m.key_columns,
                                 !.now = now],
                  c, NoRet, cur, NoExit, c.printed)

Main ==
    /\ op = "idle"
    /\ \E file \in Files, doc_name \in DocNames, table_name \in RunTables,
          now \in Times, fail \in RunFailPoints :
      \E r \in MainRuns(file) :
        LET c == main(Ctx(fail), file, r.data, doc_name, table_name, r.org,
                      r.m.upsert, r.m.key_columns, now)
        IN Finish("main",
                  [NoArgs EXCEPT !.records = r.data, !.doc_name = doc_name,
                                 !.table_id = table_name, !.org = r.org,
                                 !.upsert = r.m.upsert, !.key_columns = r.m.key_columns,
                                 !.now = now, !.exists = file.exists,
                                 !.suffix = file.suffix, !.loads = file.loads],
                  c, NoRet, cur, c.ret, c.printed)

RunNext ==
    \/ SendToGrist
    \/ Main
    \/ NextCall

SpecRun == Init /\ [][RunNext]_vars

(***************************************************************************)
(* Properties.  They read the record of the call that has just run: its    *)
(* arguments, the requests it issued, how it ended, and the remote state   *)
(* before (pre) and after it.                                              *)
(***************************************************************************)
HasTable(tbls, d, t) == d \in DOMAIN tbls /\ t \in DOMAIN tbls[d]

Positions(kind, method) ==
    {i \in 1..Len(log) : log[i].kind = kind /\ log[i].method = method}

Mutating == {i \in 1..Len(log) : log[i].method \in {"POST", "PATCH"}}

IsMutating(req) == req.method \in {"POST", "PATCH"}

\* The ids of the required columns that the table lacked before the call.
MissingBefore ==
    ColIds(args.columns) \ ColIds(pre.tables[args.doc_id][args.table_id].columns)

\* C1: when ensure_table returns without raising, the table exists and its
\* column ids include the id of every required column, whether or not the
\* table existed before the call.
C1_EnsureTableSuperset ==
    (op = "ensure_table" /\ raised = "none") =>
        /\ HasTable(tables, args.doc_id, args.table_id)
        /\ ColIds(args.columns) \subseteq ColIds(tables[args.doc_id][args.table_id].columns)

\* ensure_table returned on a table that was there and lacked two of the
\* required columns.
C1_Witness ==
    /\ op = "ensure_table"
    /\ raised = "none"
    /\ HasTable(pre.tables, args.doc_id, args.table_id)
    /\ Cardinality(MissingBefore) = 2

\* C2: ensure_table issues the table-creating POST exactly when the table is
\* not among the document's tables (and then no PATCH); when the table is
\* there it issues one PATCH carrying exactly the required columns whose ids
\* the schema lacked, and no mutating request when none is lacking; and a
\* second call with the same arguments after a call that returned issues no
\* mutating request.
C2_EnsureTableRequests ==
    op = "ensure_table" =>
        LET was == HasTable(pre.tables, args.doc_id, args.table_id)
            posts == Positions("tables", "POST")
            patches == Positions("columns", "PATCH")
            listed == Len(log) >= 1 /\ log[1].ok
            read == Len(log) >= 2 /\ log[2].ok
        IN /\ Mutating = posts \cup patches
           /\ posts # {} => ~was
           /\ patches # {} => was
           /\ (listed /\ ~was) =>
                 /\ Cardinality(posts) = 1
                 /\ \A i \in posts :
                       /\ log[i].doc = args.doc_id
                       /\ log[i].table = args.table_id
                       /\ ColIds(log[i].cols) = ColIds(args.columns)
           /\ (was /\ read /\ MissingBefore # {}) =>
                 /\ Cardinality(patches) = 1
                 /\ \A i \in patches :
                       /\ log[i].doc = args.doc_id
                       /\ log[i].table = args.table_id
                       /\ ColIds(log[i].cols) = MissingBefore
                       /\ Len(log[i].cols) = Cardinality(MissingBefore)
           /\ (was /\ MissingBefore = {}) => Mutating = {}
           /\ raised = "none" =>
                 \A f \in FailPoints :
                    LET again == ensure_table(Ctx(f), args.doc_id, args.table_id,
                                              args.columns)
                    IN \A i \in 1..Len(again.log) : ~IsMutating(again.log[i])

\* ensure_table returned after a PATCH on a table that had one of the two
\* required columns already.
C2_Witness ==
    /\ op = "ensure_table"
    /\ raised = "none"
    /\ HasTable(pre.tables, args.doc_id, args.table_id)
    /\ Cardinality(ColIds(args.columns)) = 2
    /\ Cardinality(MissingBefore) = 1
    /\ Positions("columns", "PATCH") # {}

\* The text a string is parsed as when only a trailing "Z" stands for "+00:00".
TrailingZAsOffset(s) ==
    IF s # <<>> /\ s[Len(s)] = "Z"
    THEN SubSeq(s, 1, Len(s) - 1) \o <<"+", "H">>
    ELSE s

\* The storage type the claim assigns to a representative value.
ClaimedType(v) ==
    CASE v.k = "bool" -> "Bool"
      [] v.k = "int" -> "Int"
      [] v.k = "float" -> "Numeric"
      [] v.k = "datetime" -> "DateTime"
      [] v.k = "str" ->
            IF FromIsoFormatOk(TrailingZAsOffset(v.s)) THEN "DateTime" ELSE "Text"
      [] OTHER -> "Text"

\* C3: infer_columns_from_data gives each column the storage type of its
\* representative value: Bool for a boolean, Int for an integer, Numeric for
\* a float, DateTime for a datetime and for a string that parses as an ISO
\* date-time with a trailing Z read as +00:00, Text for any other string and
\* any other value.
C3_TypeByValue ==
    (op = "infer_columns_from_data" /\ args.records # <<>>) =>
        \A i \in 1..Len(ret.cols) :
            ret.cols[i].type = ClaimedType(args.records[1][i].val)

\* The same for the values that are not strings, where the code agrees.
C3_TypeOfNonStrings ==
    (op = "infer_columns_from_data" /\ args.records # <<>>) =>
        \A i \in 1..Len(ret.cols) :
            args.records[1][i].val.k # "str" =>
                ret.cols[i].type = ClaimedType(args.records[1][i].val)

\* C4: infer_columns_from_data returns [] for an empty list, and otherwise
\* one column per key of the first record, in that record's key order, typed
\* from the first record's value; the later records have no influence.
C4_FirstRecordOnly ==
    op = "infer_columns_from_data" =>
        LET data == args.records
        IN /\ data = <<>> => ret.cols = <<>>
           /\ data # <<>> =>
                 /\ Len(ret.cols) = Len(data[1])
                 /\ \A i \in 1..Len(data[1]) :
                       /\ ret.cols[i].id = data[1][i].key
                       /\ ret.cols[i].type = InferType(data[1][i].val)
                 /\ ret.cols = InferColumns(<<data[1]>>)

\* Columns were inferred from a list whose first record has two keys and
\* whose second record has other keys, in another order, with other values.
C4_Witness ==
    /\ op = "infer_columns_from_data"
    /\ Len(args.records) >= 2
    /\ Len(args.records[1]) = 2
    /\ Len(args.records[2]) = 1
    /\ args.records[2][1].key = args.records[1][2].key
    /\ args.records[2][1].val # args.records[1][2].val
    /\ Len(ret.cols) = 2

\* Whether record r and row w agree on every key column: both carry it, with
\* the same value.
ValueAt(r, k) == r[CHOOSE i \in 1..Len(r) : r[i].key = k].val

Agree(r, w, keys) ==
    \A j \in 1..Len(keys) :
        /\ HasKey(r, keys[j])
        /\ HasKey(w, keys[j])
        /\ ValueAt(r, keys[j]) = ValueAt(w, keys[j])

RowsLike(rows, r, keys) == {i \in 1..Len(rows) : Agree(r, rows[i], keys)}

\* C5: upsert_records with key_columns given updates the existing row that
\* agrees with an uploaded record on every key column and adds no row for
\* it: the number of rows with that key combination does not grow.
C5_UpsertUpdatesMatchingRow ==
    (op = "upsert_records" /\ raised = "none" /\ args.key_columns.some) =>
        LET before == pre.tables[args.doc_id][args.table_id].rows
            after == tables[args.doc_id][args.table_id].rows
            keys == args.key_columns.v
        IN \A i \in 1..Len(args.records) :
              RowsLike(before, args.records[i], keys) # {} =>
                  Cardinality(RowsLike(after, args.records[i], keys))
                      <= Cardinality(RowsLike(before, args.records[i], keys))

\* What the code does instead, with or without key_columns: the records are
\* appended to the rows.
C5_UpsertAppends ==
    (op = "upsert_records" /\ raised = "none") =>
        tables[args.doc_id][args.table_id].rows
            = pre.tables[args.doc_id][args.table_id].rows \o args.records

\* The documents of the client's workspace named as the call asks, before it.
NamedBefore ==
    {i \in 1..Len(pre.docs["w1"]) : pre.docs["w1"][i].name = args.doc_name}

NamedCount(ds, name) == Cardinality({i \in 1..Len(ds) : ds[i].name = name})

\* C6: get_or_create_document returns the first listed document of the name
\* and issues no creating POST when there is one, issues exactly one creating
\* POST with the name otherwise, and so creates at most one document of a
\* name over sequential calls: a call after one that returned creates none.
C6_GetOrCreateDocument ==
    op = "get_or_create_document" =>
        LET creates == Positions("ws_docs", "POST")
            listed == Len(log) >= 2 /\ log[2].ok
        IN /\ creates # {} => NamedBefore = {}
           /\ Cardinality(creates) <= 1
           /\ (listed /\ NamedBefore = {}) =>
                 /\ Cardinality(creates) = 1
                 /\ \A i \in creates : log[i].name = args.doc_name /\ log[i].ws = "w1"
           /\ (raised = "none" /\ NamedBefore # {}) =>
                 /\ ret.doc = pre.docs["w1"][First(NamedBefore)]
                 /\ docs = pre.docs
           /\ raised = "none" =>
                 /\ ret.doc.name = args.doc_name
                 /\ NamedCount(docs["w1"], args.doc_name)
                        = IF NamedBefore = {} THEN 1 ELSE Cardinality(NamedBefore)
                 /\ \A f \in FailPoints :
                       LET again == get_or_create_document(Ctx(f), args.doc_name, args.org)
                       IN \A i \in 1..Len(again.log) : ~IsMutating(again.log[i])

\* get_or_create_document found, without creating, the document that an
\* earlier call created.
C6_Witness ==
    /\ op = "get_or_create_document"
    /\ raised = "none"
    /\ Mutating = {}
    /\ ret.doc.id = 3
    /\ nextId = 4
    /\ Len(docs["w1"]) = 2

\* C8: add_records and upsert_records upload the records they are given in
\* exactly one POST to the table's records endpoint, in the order given, none
\* dropped or duplicated, whatever their number.
C8_OnePostPerCall ==
    op \in {"add_records", "upsert_records"} =>
        /\ Len(log) = 1
        /\ log[1].method = "POST"
        /\ log[1].kind = "records"
        /\ log[1].doc = args.doc_id
        /\ log[1].table = args.table_id
        /\ log[1].recs = args.records
        /\ raised = "none" =>
              tables[args.doc_id][args.table_id].rows
                  = pre.tables[args.doc_id][args.table_id].rows \o args.records

\* upsert_records with key columns uploaded two records in one request.
C8_Witness ==
    /\ op = "upsert_records"
    /\ args.key_columns.some
    /\ raised = "none"
    /\ Len(args.records) = 2
    /\ Len(log) = 1

\* No row was added to any table by the call that has just run.
NoRowsAdded ==
    \A d \in DOMAIN tables : \A t \in DOMAIN tables[d] :
        tables[d][t].rows = IF HasTable(pre.tables, d, t) THEN pre.tables[d][t].rows
                            ELSE <<>>

RemoteUnchanged == docs = pre.docs /\ tables = pre.tables

Failed == {i \in 1..Len(log) : ~log[i].ok}

OrgFound == \E i \in 1..Len(Workspaces) :
                Workspaces[i].id = args.org \/ Workspaces[i].name = args.org

\* Whether main got as far as calling send_to_grist.
SendReached ==
    \/ op = "send_to_grist"
    \/ op = "main" /\ args.exists /\ args.loads
          /\ args.suffix \in { DotJson, DotCsv, <<".", "J", "S", "O", "N">>,
                               <<".", "C", "s", "v">> }

\* C7: no retries.  In a run of send_to_grist every request is issued once;
\* a request answered with an error status is the last request of the run
\* (not reissued, nothing after it) and the run raises with no record
\* uploaded; when the workspace named by org is not found the run raises
\* ValueError after the one workspace listing, the remote unchanged.
C7_NoRetries ==
    SendReached =>
        /\ \A i \in Failed : i = Len(log)
        /\ Failed # {} => raised = "HTTPError"
        /\ raised = "HTTPError" => Failed # {}
        /\ raised # "none" => (NoRowsAdded /\ ~success
                               /\ \A i \in Positions("records", "POST") : ~log[i].ok)
        /\ raised = "ValueError" <=>
              (args.records # <<>> /\ ~OrgFound /\ Failed = {})
        /\ raised = "ValueError" =>
              (Len(log) = 1 /\ log[1].kind = "workspaces" /\ RemoteUnchanged)
        /\ Cardinality(Positions("workspaces", "GET")) <= 1
        /\ Cardinality(Positions("ws_docs", "GET")) <= 1
        /\ Cardinality(Positions("ws_docs", "POST")) <= 1
        /\ Cardinality(Positions("tables", "POST")) <= 1
        /\ Cardinality(Positions("records", "POST")) <= 1
        /\ \A i \in 1..Len(log) : \A j \in 1..Len(log) :
              (i < j /\ IsMutating(log[i]) /\ log[i].kind = log[j].kind
                     /\ log[i].method = log[j].method) => log[i].cols # log[j].cols

\* A run of send_to_grist whose record upload, its last request, was answered
\* with an error status after both reconciliations went through.
C7_Witness ==
    /\ op = "send_to_grist"
    /\ raised = "HTTPError"
    /\ Len(log) >= 7
    /\ log[Len(log)].kind = "records"
    /\ Failed = {Len(log)}

\* C9: send_to_grist with an empty record list returns without issuing any
\* request; the remote state is unchanged.
C9_EmptyDataNoRequest ==
    (SendReached /\ args.records = <<>>) =>
        /\ log = <<>>
        /\ raised = "none"
        /\ RemoteUnchanged
        /\ nextId = Len(docs["w1"]) + Len(docs["w2"]) + 1
        /\ ~success

\* send_to_grist ran with no records for an org that is no workspace.
C9_Witness ==
    /\ op = "send_to_grist"
    /\ args.records = <<>>
    /\ ~OrgFound
    /\ log = <<>>

\* C10: main ends with status 1 and without contacting Grist when the input
\* file does not exist or its suffix is neither .json nor .csv in any case,
\* ends with status 1 whenever send_to_grist raises, and reports success only
\* when no request failed and the records were uploaded.
C10_ExitStatus ==
    op = "main" =>
        /\ (~args.exists
            \/ args.suffix \notin { DotJson, DotCsv, <<".", "J", "S", "O", "N">>,
                                    <<".", "C", "s", "v">> }) =>
              (exit = 1 /\ log = <<>> /\ RemoteUnchanged /\ ~success)
        /\ raised # "none" => (exit = 1 /\ ~success)
        /\ exit \in {0, 1}
        /\ exit = 0 => (raised = "none" /\ Failed = {})
        /\ success =>
              /\ exit = 0
              /\ Failed = {}
              /\ log # <<>>
              /\ log[Len(log)].kind = "records"
              /\ log[Len(log)].recs # <<>>
        /\ SendReached =>
              /\ exit = 0 <=> raised = "none"
              /\ raised \in {"none", "HTTPError", "ValueError"}
              /\ args.records # <<>> => log # <<>>

\* main ended with status 1 because the record upload inside send_to_grist
\* was answered with an error status; the file had an upper-case suffix.
C10_Witness ==
    /\ op = "main"
    /\ args.suffix = <<".", "J", "S", "O", "N">>
    /\ raised = "HTTPError"
    /\ log # <<>>
    /\ log[Len(log)].kind = "records"
    /\ exit = 1

\* The stage of send_to_grist a request belongs to: workspace lookup,
\* document lookup and creation, table reconciliation, record upload.
Stage(req) ==
    CASE req.kind = "workspaces" -> 1
      [] req.kind = "ws_docs" -> 2
      [] req.kind \in {"tables", "columns"} -> 3
      [] req.kind = "records" -> 4

\* Each reconciliation starts with a listing of the document's tables.
Starts == Positions("tables", "GET")

\* The reconciliation (first, second) the request at position i is part of.
Round(i) == Cardinality({s \in Starts : s <= i})

StampInferred == "scraped_at" \in KeysOf(args.records[1])

RoundsNeeded == IF StampInferred THEN 1 ELSE 2

\* The document the run works on: the first of the name that was there, or
\* else the one the run has created.
RunDoc ==
    IF NamedBefore # {} THEN pre.docs["w1"][First(NamedBefore)]
    ELSE docs["w1"][Len(docs["w1"])]

\* C11: in a run of send_to_grist with non-empty data the requests come in a
\* fixed order: workspace lookup, document lookup (and creation if missing),
\* reconciliation for the inferred columns, reconciliation for scraped_at
\* when it was not inferred, and last the record upload; the upload is issued
\* at most once, and only after the document id is known and both
\* reconciliations have completed successfully.
C11_RequestOrder ==
    (SendReached /\ args.records # <<>>) =>
        /\ log # <<>>
        /\ log[1].kind = "workspaces"
        /\ \A i \in 1..Len(log) : \A j \in 1..Len(log) :
              i < j => Stage(log[i]) <= Stage(log[j])
        /\ Cardinality(Positions("workspaces", "GET")) = 1
        /\ \A i \in Positions("ws_docs", "GET") : i = 2
        /\ \A i \in Positions("ws_docs", "POST") : i = 3 /\ NamedBefore = {}
        /\ Cardinality(Starts) <= RoundsNeeded
        /\ \A i \in 1..Len(log) :
              Stage(log[i]) \in {3, 4} =>
                 /\ log[2].ok
                 /\ NamedBefore = {} => (log[3].kind = "ws_docs" /\ log[3].ok)
                 /\ log[i].doc = RunDoc.id
                 /\ i \notin Starts => log[i].table = args.table_id
        /\ \A i \in 1..Len(log) :
              (Stage(log[i]) = 3 /\ IsMutating(log[i])) =>
                 /\ Round(i) = 1 =>
                       (ColIds(log[i].cols) \subseteq KeysOf(args.records[1])
                        /\ ~StampInferred => "scraped_at" \notin ColIds(log[i].cols))
                 /\ Round(i) = 2 => ColIds(log[i].cols) = {"scraped_at"}
        /\ Cardinality(Positions("records", "POST")) <= 1
        /\ \A u \in Positions("records", "POST") :
              /\ u = Len(log)
              /\ \A i \in 1..(u - 1) : log[i].ok
              /\ Cardinality(Starts) = RoundsNeeded
        /\ raised = "none" => (log[Len(log)].kind = "records" /\ log[Len(log)].ok)

\* A run that created the document, created the table for the inferred
\* columns, added the scraped_at column in a second reconciliation and then
\* uploaded the records.
C11_Witness ==
    /\ op = "send_to_grist"
    /\ raised = "none"
    /\ Positions("ws_docs", "POST") = {3}
    /\ Positions("tables", "POST") # {}
    /\ Positions("columns", "PATCH") # {}
    /\ Cardinality(Starts) = 2
    /\ log[Len(log)].kind = "records"

\* The column ids of the table a request names, in the remote state the call
\* left: the record upload changes no column, so they are the ids the table
\* had when the upload was issued.
ColumnsAt(req) ==
    IF HasTable(tables, req.doc, req.table)
    THEN ColIds(tables[req.doc][req.table].columns) ELSE {}

\* C12: when send_to_grist uploads the records the remote table has a column
\* for every key of every uploaded record, scraped_at and the keys that only
\* records after the first carry included.
C12_SchemaCoversRecords ==
    SendReached =>
        \A u \in Positions("records", "POST") :
            /\ HasTable(tables, log[u].doc, log[u].table)
            /\ \A i \in 1..Len(log[u].recs) :
                  KeysOf(log[u].recs[i]) \subseteq ColumnsAt(log[u])

\* What the code ensures instead: the table has a column for every key of
\* the first record and for scraped_at.
C12_SchemaCoversFirstRecord ==
    SendReached =>
        \A u \in Positions("records", "POST") :
            /\ HasTable(tables, log[u].doc, log[u].table)
            /\ KeysOf(log[u].recs[1]) \cup {"scraped_at"} \subseteq ColumnsAt(log[u])

\* The records of args.records that came without a scraped_at field.
Unstamped == {i \in 1..Len(args.records) : ~HasKey(args.records[i], "scraped_at")}

\* C13: in the payload send_to_grist uploads every record has a scraped_at
\* field; a record that carried one keeps its value; the records that lacked
\* it all receive one and the same timestamp; and no other field of any
\* record is changed.
C13_StampAll ==
    SendReached =>
        \A u \in Positions("records", "POST") :
            LET recs == log[u].recs
                data == args.records
            IN /\ Len(recs) = Len(data)
               /\ \A i \in 1..Len(recs) :
                     /\ HasKey(recs[i], "scraped_at")
                     /\ i \notin Unstamped => recs[i] = data[i]
                     /\ i \in Unstamped =>
                           /\ Len(recs[i]) = Len(data[i]) + 1
                           /\ SubSeq(recs[i], 1, Len(data[i])) = data[i]
                           /\ recs[i][Len(recs[i])].key = "scraped_at"
                           /\ recs[i][Len(recs[i])].val.k = "str"
               /\ \A i \in Unstamped : \A j \in Unstamped :
                     ValueAt(recs[i], "scraped_at") = ValueAt(recs[j], "scraped_at")

\* An upload of two records of which the first came with a scraped_at value
\* and the second, with another field, came without.
C13_Witness ==
    /\ op = "send_to_grist"
    /\ raised = "none"
    /\ Len(args.records) = 2
    /\ Unstamped = {2}
    /\ Len(args.records[2]) = 2
    /\ Positions("records", "POST") = {Len(log)}
    /\ Len(tables[log[Len(log)].doc][args.table_id].rows) >= 2

\* An upload of two records that both came without scraped_at.
C13_WitnessBoth ==
    /\ op = "send_to_grist"
    /\ raised = "none"
    /\ Unstamped = {1, 2}
    /\ Positions("records", "POST") = {Len(log)}

\* Whether a table kept what it had: its rows as they were, and its columns
\* of before, with their ids, types and order, leading its columns of now.
Kept(before, after) ==
    /\ after.rows = before.rows
    /\ Len(after.columns) >= Len(before.columns)
    /\ SubSeq(after.columns, 1, Len(before.columns)) = before.columns

\* The required columns whose id the table had before the call with a type
\* other than the required one.
Retyped ==
    {i \in 1..Len(args.columns) :
        \E j \in 1..Len(pre.tables[args.doc_id][args.table_id].columns) :
            LET had == pre.tables[args.doc_id][args.table_id].columns[j]
            IN had.id = args.columns[i].id /\ had.type # ColType(args.columns[i])}

\* C14: ensure_table only ever adds.  Whatever call of ensure_table has just
\* run, and however it ended, every table that was there is still there with
\* its rows unchanged and each of its columns in place under the same id and
\* type, also a column that the call required with another type; the call
\* sends no request naming a table or a column that was there; so no
\* sequence of calls removes, renames or retypes a column or changes a row.
C14_EnsureTableOnlyAdds ==
    op = "ensure_table" =>
        /\ docs = pre.docs
        /\ DOMAIN tables = DOMAIN pre.tables
        /\ \A d \in DOMAIN pre.tables : \A t \in DOMAIN pre.tables[d] :
              /\ t \in DOMAIN tables[d]
              /\ Kept(pre.tables[d][t], tables[d][t])
              /\ (d # args.doc_id \/ t # args.table_id) => tables[d][t] = pre.tables[d][t]
        /\ \A d \in DOMAIN tables : \A t \in DOMAIN tables[d] :
              t \notin DOMAIN pre.tables[d] =>
                 (d = args.doc_id /\ t = args.table_id /\ tables[d][t].rows = <<>>)
        /\ \A i \in Mutating :
              /\ log[i].kind \in {"tables", "columns"}
              /\ log[i].kind = "tables" =>
                    ~HasTable(pre.tables, args.doc_id, args.table_id)
              /\ log[i].kind = "columns" =>
                    ColIds(log[i].cols)
                        \cap ColIds(pre.tables[args.doc_id][args.table_id].columns) = {}

\* ensure_table added a column to a table that held rows and had a column
\* the call required with another type.
C14_Witness ==
    /\ op = "ensure_table"
    /\ raised = "none"
    /\ HasTable(pre.tables, args.doc_id, args.table_id)
    /\ pre.tables[args.doc_id][args.table_id].rows # <<>>
    /\ Retyped # {}
    /\ Positions("columns", "PATCH") # {}

\* The run that has just ended got past the document lookup: it issued a
\* request of a reconciliation or the record upload.
PastLookup == \E i \in 1..Len(log) : Stage(log[i]) \in {3, 4}

\* The same run once more, from the remote state the last run left, with
\* request f answered with an error status.
RunAgain(f) ==
    send_to_grist(Ctx(f), args.records, args.doc_name, args.table_id, args.org,
                  args.upsert, args.key_columns, args.now)

\* C15: there is no rollback.  When a run of send_to_grist fails after the
\* document lookup (in a reconciliation or at the record upload) the
\* document, the table and the columns that its answered requests created
\* are in the remote state it leaves, with all that was there before; and an
\* identical run after it works on the same document and creates neither a
\* document nor a table that is there, nor a column the table has.
C15_NoRollback ==
    (SendReached /\ raised # "none" /\ PastLookup) =>
        /\ \A w \in DOMAIN pre.docs :
              SubSeq(docs[w], 1, Len(pre.docs[w])) = pre.docs[w]
        /\ \A d \in DOMAIN pre.tables : \A t \in DOMAIN pre.tables[d] :
              HasTable(tables, d, t) /\ Kept(pre.tables[d][t], tables[d][t])
        /\ \E k \in 1..Len(docs["w1"]) : docs["w1"][k] = RunDoc
        /\ RunDoc.name = args.doc_name
        /\ RunDoc.id \in DOMAIN tables
        /\ \A i \in 1..Len(log) :
              (log[i].ok /\ Stage(log[i]) = 3 /\ IsMutating(log[i])) =>
                 /\ HasTable(tables, RunDoc.id, args.table_id)
                 /\ ColIds(log[i].cols) \subseteq ColumnsAt(log[i])
        /\ \A f \in RunFailPoints :
              LET again == RunAgain(f).log
              IN \A i \in 1..Len(again) :
                    /\ ~(again[i].kind = "ws_docs" /\ again[i].method = "POST")
                    /\ Stage(again[i]) \in {3, 4} => again[i].doc = RunDoc.id
                    /\ (again[i].kind = "tables" /\ again[i].method = "POST") =>
                          ~HasTable(tables, RunDoc.id, args.table_id)
                    /\ (again[i].kind = "columns" /\ again[i].method = "PATCH") =>
                          ColIds(again[i].cols) \cap ColumnsAt(again[i]) = {}

\* A run that created the document and the table and then failed in the
\* second reconciliation, at the PATCH adding scraped_at.
C15_Witness ==
    /\ op = "send_to_grist"
    /\ raised = "HTTPError"
    /\ Positions("ws_docs", "POST") = {3}
    /\ Positions("tables", "POST") = {5}
    /\ Positions("columns", "PATCH") = {Len(log)}
    /\ ~log[Len(log)].ok
    /\ HasTable(tables, RunDoc.id, args.table_id)
    /\ ~HasTable(pre.tables, RunDoc.id, args.table_id)

====
